---- MODULE Spec2Model ----
(***************************************************************************)
(* A model of the report generator's MCP servers: the PostgreSQL singleton *)
(* and its connection pool (mcp/postgres/src/postgresql.ts), the catalog   *)
(* and query handlers (mcp/postgres-query/src/mcp-server.ts) and the CSV   *)
(* writers (mcp/csv-generator/src/mcp-server.ts).                          *)
(*                                                                         *)
(* A request is one handler invocation.  Handlers suspend at two places:   *)
(* the store round trip (await pool.query) and the write stream's events   *)
(* (open, write, finish, error).  Everything between two suspension points *)
(* runs without interleaving, as on the Node.js event loop.                *)
(***************************************************************************)
EXTENDS Integers, Sequences, FiniteSets, TLC

\* Each server runs in a process of its own and imports its own PostgreSQL
\* class, so the process state and the pool state are kept per server.
VARIABLES
    env,        \* process.env: PGPORT, PGDATABASE, PGUSER, PGPASSWORD
    exitCode,   \* per server: 0 while its process runs, else the code it
                \* ended with
    poolEnding, \* per server: pool.end() has been called
    instance,   \* per server: PostgreSQL.instance is set
    poolCount,  \* per server: number of times `new Pool` ran
    poolClient, \* per server: the request whose query holds the pool's one
                \* client, or 0
    poolQueue,  \* per server: requests waiting for the client, oldest first
    req,        \* per request: the tool called (op) and its arguments, the
                \* handler's position (pc), the statement and values it
                \* gave queryAsync (query), the number of pool.query calls
                \* made for it (queries), what pool.query threw (thrown),
                \* how queryAsync ended (result), the write stream it
                \* created (stream), what the file held when the stream
                \* opened it (before), the stream's bytesWritten, the
                \* number of its writes that were short (shortWrites),
                \* the byte the write in flight ends at when a part of
                \* it is written (writeEnd), the 'error' the stream emitted before it
                \* finished (emitted) and after (late), and what the
                \* handler's promise settled with (outcome)
    fs          \* the file system: full path -> the file's complete lines
                \* and the bytes after its last record delimiter

vars == <<env, exitCode, poolEnding, instance, poolCount, poolClient, poolQueue, req, fs>>

----------------------------------------------------------------------------
(* Bounds of the model.                                                    *)

\* Number of handler invocations in one behaviour.
MaxRequests == 2
\* Largest number of chunk-size groups a result set spans.
MaxParts == 3
\* Number of requests the server process can have in flight.
MaxClients == 3
\* Number of times the file takes only a part of a write of one stream.
MaxShortWrites == 1

\* "If the row count > 1000 ... (1000 rows per file)".
ChunkSize == 1000
Req == 1..MaxRequests
Clients == 1..MaxClients

----------------------------------------------------------------------------
(* Characters and strings.  A string that reaches a file is a sequence of  *)
(* characters: Q is the quote character, COMMA the delimiter, NL the       *)
(* record delimiter.  Quoting and escaping act on the characters.          *)

Q == "\""
COMMA == ","
NL == "\n"

Digit(d) ==
    CASE d = 0 -> "0" [] d = 1 -> "1" [] d = 2 -> "2" [] d = 3 -> "3"
      [] d = 4 -> "4" [] d = 5 -> "5" [] d = 6 -> "6" [] d = 7 -> "7"
      [] d = 8 -> "8" [] d = 9 -> "9"

\* '' + value for a non-negative integer
RECURSIVE NumChars(_)
NumChars(n) == IF n < 10 THEN <<Digit(n)>> ELSE Append(NumChars(n \div 10), Digit(n % 10))

----------------------------------------------------------------------------
(* Values of a row.  t is the JavaScript type: "null" (null or undefined), *)
(* "string", "number", "boolean" or "date"; s holds a string's characters  *)
(* (a date's ISO-8601 text), n a number (a boolean as 0/1; for a date 1    *)
(* when the date is valid and 0 when it is an Invalid Date).               *)

Null == [t |-> "null", s |-> <<>>, n |-> 0]
Str(s) == [t |-> "string", s |-> s, n |-> 0]
Num(n) == [t |-> "number", s |-> <<>>, n |-> n]
Bool(b) == [t |-> "boolean", s |-> <<>>, n |-> IF b THEN 1 ELSE 0]
Date(iso) == [t |-> "date", s |-> iso, n |-> 1]
InvalidDate == [t |-> "date", s |-> <<>>, n |-> 0]
\* Values JSON has no text for: a BigInt, and an object that holds a
\* reference to itself
BigInt(n) == [t |-> "bigint", s |-> <<>>, n |-> n]
Cyclic == [t |-> "cyclic", s |-> <<>>, n |-> 0]

\* A row is a JavaScript object: its keys in insertion order, each with a value.
Pair(k, v) == [k |-> k, v |-> v]
Keys(row) == [i \in DOMAIN row |-> row[i].k]
HasKey(row, k) == \E i \in DOMAIN row : row[i].k = k
\* record[key]; undefined when the key is absent
Get(row, k) ==
    IF HasKey(row, k) THEN row[CHOOSE i \in DOMAIN row : row[i].k = k].v ELSE Null

----------------------------------------------------------------------------
(* csv-stringify as configured by both writers:                            *)
(*   stringify({ header: true, quoted: true, quoted_empty: true,           *)
(*               escape: '"', cast: { date: (v) => v.toISOString() } })    *)

\* The cast of a value to the string the stringifier formats.  null and
\* undefined are not cast; false is cast to the empty string, true to '1'.
CastValue(v) ==
    CASE v.t = "string" -> v.s
      [] v.t = "number" -> NumChars(v.n)
      [] v.t = "boolean" -> IF v.n = 1 THEN <<"1">> ELSE <<>>
      [] v.t = "date" -> v.s
      [] OTHER -> <<>>

\* value.toISOString() throws a RangeError on an Invalid Date
CastThrows(v) == v.t = "date" /\ v.n = 0

\* escape: '"' : every quote character is preceded by the escape character
RECURSIVE EscapeQuotes(_)
EscapeQuotes(s) ==
    IF s = <<>> THEN <<>>
    ELSE (IF Head(s) = Q THEN <<Q, Q>> ELSE <<Head(s)>>) \o EscapeQuotes(Tail(s))

\* One field.  quoted: a cast that is not empty is written between quotes,
\* its quote characters escaped.  quoted_empty: a field with nothing to
\* write ('', false, null, undefined) is written as two quotes.
Field(v) ==
    IF v.t = "null" \/ CastValue(v) = <<>> THEN <<Q, Q>>
    ELSE <<Q>> \o EscapeQuotes(CastValue(v)) \o <<Q>>

\* The fields of one record joined by the delimiter
RECURSIVE JoinFields(_)
JoinFields(fields) ==
    IF fields = <<>> THEN <<>>
    ELSE IF Len(fields) = 1 THEN Head(fields)
    ELSE Head(fields) \o <<COMMA>> \o JoinFields(Tail(fields))

\* header: true with no columns option: the columns are the keys of the
\* first record written, in their order
Columns(rows) == IF rows = <<>> THEN <<>> ELSE Keys(rows[1])

HeaderLine(cols) == JoinFields([i \in DOMAIN cols |-> Field(Str(cols[i]))])

\* A record is written column by column: record[column] for each column
RecordLine(cols, row) == JoinFields([i \in DOMAIN cols |-> Field(Get(row, cols[i]))])

\* Index of the first row whose cast throws, or 0
FirstThrow(cols, rows) ==
    LET bad == {i \in DOMAIN rows : \E c \in DOMAIN cols : CastThrows(Get(rows[i], cols[c]))}
    IN IF bad = {} THEN 0 ELSE CHOOSE i \in bad : \A j \in bad : i <= j

\* CsvLines with header: false: the records only
CsvLinesNoHeader(rows) ==
    IF rows = <<>> THEN <<>>
    ELSE LET cols == Columns(rows)
         IN [i \in 1..Len(rows) |-> RecordLine(cols, rows[i])]

\* CsvLines writing the records last to first
CsvLinesReversed(rows) ==
    IF rows = <<>> THEN <<>>
    ELSE LET cols == Columns(rows)
             n == Len(rows)
         IN <<HeaderLine(cols)>> \o [i \in 1..n |-> RecordLine(cols, rows[n + 1 - i])]

\* Everything the stringifier pushes to its readable side for `rows`: the
\* header line, then one line per record up to the first record that throws.
CsvLines(rows) ==
    IF rows = <<>> THEN <<>>
    ELSE LET cols == Columns(rows)
             stop == FirstThrow(cols, rows)
             n == IF stop = 0 THEN Len(rows) ELSE stop - 1
         IN <<HeaderLine(cols)>> \o [i \in 1..n |-> RecordLine(cols, rows[i])]

----------------------------------------------------------------------------
(* Result sets and tool inputs the model draws from.                       *)

NameOf(i) ==
    CASE i % 3 = 1 -> Str(<<"a", Q, "b">>)
      [] i % 3 = 2 -> Str(<<>>)
      [] OTHER -> Null

\* new Date(...).toISOString() of a timestamp column's value
IsoText ==
    <<"2", "0", "2", "4", "-", "0", "1", "-", "0", "1", "T",
      "0", "0", ":", "0", "0", ":", "0", "0", ".", "0", "0", "0", "Z">>

\* Row i of a data set.  "dated" rows hold what pg makes of a timestamp: a
\* Date, which is an Invalid Date in row 2 (a year past the range of Date).
RowOf(kind, i) ==
    CASE kind = "ids" -> <<Pair(<<"i", "d">>, Num(i))>>
      [] kind = "mixed" ->
            <<Pair(<<"i", "d">>, Num(i)), Pair(<<"n", "a", "m", "e">>, NameOf(i))>>
      [] kind = "ragged" ->
            IF i = 1
            THEN <<Pair(<<"i", "d">>, Num(i)), Pair(<<"n", "a", "m", "e">>, Str(<<"x">>))>>
            ELSE <<Pair(<<"i", "d">>, Num(i))>>
      [] kind = "late" ->
            IF i = 1 THEN <<Pair(<<"i", "d">>, Num(i))>>
            ELSE <<Pair(<<"n", "a", "m", "e">>, Str(<<"x">>)), Pair(<<"i", "d">>, Num(i))>>
      [] kind = "dated" ->
            <<Pair(<<"i", "d">>, Num(i)),
              Pair(<<"a", "t">>, IF i = 2 THEN InvalidDate ELSE Date(IsoText))>>

DataSet(kind, n) == [i \in 1..n |-> RowOf(kind, i)]

SmallCounts == 0..2
BigCounts == {ChunkSize, ChunkSize + 1, (MaxParts - 1) * ChunkSize + 500}

\* Rows of numbers, strings and nulls, every row with the same fields
PlainRows == {DataSet("ids", n) : n \in SmallCounts} \cup {DataSet("mixed", 3)}
BigRows == {DataSet("ids", n) : n \in BigCounts}

\* What a query can return: every row of a result set has the same fields
SmallStoreRows == PlainRows \cup {DataSet("dated", 1), DataSet("dated", 2)}
StoreRows == SmallStoreRows \cup BigRows

\* What a caller can pass as `contents`: any JSON array of objects
SmallContents == PlainRows \cup {DataSet("ragged", 2), DataSet("late", 2)}
Contents == SmallContents \cup BigRows

Paths == {<<"out">>, <<"etc">>}
Filenames == {<<"report.csv">>, <<"..", "etc", "report.csv">>}

\* The directory reports go to: "create the CSV file in **out** directory"
OutputRoot == <<"out">>

\* An error object: its name and message, and its own enumerable
\* properties, which are what JSON.stringify reads of it
Err(name, message, props) == [name |-> name, message |-> message, props |-> props]

\* What pool.query can throw, caught as `unknown`: the store's error, a
\* connection error, and an error one of whose properties holds a
\* reference cycle
StoreErrors ==
    {Err("error", "permission denied for table Series", <<>>),
     Err("Error", "connect ECONNREFUSED 127.0.0.1:5432", <<>>),
     Err("Error", "Connection terminated unexpectedly", <<[k |-> "client", v |-> Cyclic]>>)}

\* What the write stream can emit as 'error'
OpenErrors == {Err("Error", "EACCES: permission denied, open", <<>>)}
WriteErrors == {Err("Error", "ENOSPC: no space left on device, write", <<>>)}
\* The 'error' of a close that fails: it comes after 'finish'
CloseErrors == {Err("Error", "EIO: i/o error, close", <<>>)}
\* What the stringifier emits as 'error' when the date cast throws:
\* toISOString() of an Invalid Date
CastError == Err("RangeError", "Invalid time value", <<>>)

----------------------------------------------------------------------------
(* path.join: the segments of both arguments, normalised.  A path is the   *)
(* sequence of its segments below the file system root.                    *)

RECURSIVE Normalize(_, _)
Normalize(segs, acc) ==
    IF segs = <<>> THEN acc
    ELSE LET s == Head(segs) IN
         IF s = ".." THEN
             Normalize(Tail(segs), IF acc = <<>> THEN <<>> ELSE SubSeq(acc, 1, Len(acc) - 1))
         ELSE IF s = "." \/ s = "" THEN Normalize(Tail(segs), acc)
         ELSE Normalize(Tail(segs), Append(acc, s))

join(path, filename) == Normalize(path \o filename, <<>>)

\* p names a file below directory root
Under(root, p) == Len(p) > Len(root) /\ SubSeq(p, 1, Len(root)) = root

----------------------------------------------------------------------------
(* Template literals.  A text is the sequence of a template's pieces.      *)

\* `${err}` for an Error: Error.prototype.toString
ErrToString(err) ==
    IF err.name = "" THEN <<err.message>>
    ELSE IF err.message = "" THEN <<err.name>>
    ELSE <<err.name, ": ", err.message>>

Contains(text, piece) == \E i \in DOMAIN text : text[i] = piece

----------------------------------------------------------------------------
(* PostgreSQL.queryAsync(parameterizedQuery, values).  `reply` is how       *)
(* pool.query ended: with rows, or by throwing err.  The value is how      *)
(* queryAsync ended: threw is whether it rejected (message is then what it *)
(* rejected with), otherwise error/message/data are the QueryResult.       *)

NoErr == Err("", "", <<>>)
\* QueryResult.message is a string or what was caught; a string is held as
\* a value with no name, which `${...}` renders as the string itself
Plain(text) == Err("", text, <<>>)
ReplyRows(rows) == [threw |-> FALSE, rows |-> rows, err |-> NoErr]
ReplyThrow(err) == [threw |-> TRUE, rows |-> <<>>, err |-> err]

\* JSON.stringify(value, null, 4) throws a TypeError for a BigInt and for
\* an object that refers to itself, also when an array or an object holds
\* one
StringifyThrows(v) == v.t \in {"bigint", "cyclic"}
StringifyError(v) ==
    IF v.t = "bigint" THEN Err("TypeError", "Do not know how to serialize a BigInt", <<>>)
    ELSE Err("TypeError", "Converting circular structure to JSON", <<>>)
\* The first value of a list that JSON.stringify throws for, or 0
FirstUnserializable(values) ==
    LET bad == {i \in DOMAIN values : StringifyThrows(values[i])}
    IN IF bad = {} THEN 0 ELSE CHOOSE i \in bad : \A j \in bad : i <= j

\* An async function that throws: its promise rejects with err
Rejects(err) == [threw |-> TRUE, error |-> FALSE, message |-> err, data |-> <<>>]

\* The values are logged with JSON.stringify before the try block, and
\* what pool.query throws is logged with JSON.stringify in the catch block:
\* a TypeError from either leaves queryAsync as a rejection.  When the
\* values cannot be logged pool.query is not called.
queryAsync(values, reply) ==
    IF FirstUnserializable(values) # 0
    THEN Rejects(StringifyError(values[FirstUnserializable(values)]))
    ELSE IF ~reply.threw
    THEN [threw |-> FALSE, error |-> FALSE, message |-> Plain("success"), data |-> reply.rows]
    ELSE IF FirstUnserializable([i \in DOMAIN reply.err.props |-> reply.err.props[i].v]) # 0
    THEN Rejects(StringifyError(
            reply.err.props[FirstUnserializable(
                [i \in DOMAIN reply.err.props |-> reply.err.props[i].v])].v))
    ELSE [threw |-> FALSE, error |-> TRUE, message |-> reply.err, data |-> <<>>]

NoResult == [threw |-> FALSE, error |-> FALSE, message |-> NoErr, data |-> <<>>]

----------------------------------------------------------------------------
(* Outcomes.  kind is "none" while the handler's promise is pending, "ok"  *)
(* or "error" once it resolved (error: isError is set), "raised" if it     *)
(* rejected.  structured is the structuredContent, sc whether it is there. *)

NoOutcome == [kind |-> "none", text |-> <<>>, sc |-> FALSE, structured |-> <<>>]
Ok(text, structured) == [kind |-> "ok", text |-> text, sc |-> TRUE, structured |-> structured]
OkText(text) == [kind |-> "ok", text |-> text, sc |-> FALSE, structured |-> <<>>]
Error(text) == [kind |-> "error", text |-> text, sc |-> FALSE, structured |-> <<>>]
Raised(text) == [kind |-> "raised", text |-> text, sc |-> FALSE, structured |-> <<>>]

NoStream == [open |-> FALSE, path |-> <<>>]
StreamAt(p) == [open |-> TRUE, path |-> p]

\* What a handler has done when it suspends or returns
Step(pc, outcome, stream) == [pc |-> pc, outcome |-> outcome, stream |-> stream]
Return(outcome) == Step("done", outcome, NoStream)

----------------------------------------------------------------------------
(* The catalog, as information_schema answers the handlers' queries.       *)

Schemas == {"public"}
Tables == {"Series"}

SchemaRow(s) == [schema_name |-> s]
TableRow(s, t) == [table_schema |-> s, table_name |-> t]
\* A row of information_schema."columns"; <<>> is SQL NULL
ColumnRow(s, t, c) ==
    [table_schema |-> s, table_name |-> t, column_name |-> c,
     data_type |-> IF c = "Id" THEN "integer" ELSE "character varying",
     identity |-> c = "Id", required |-> c # "Id",
     character_maximum_length |-> IF c = "Id" THEN <<>> ELSE <<255>>,
     numeric_precision |-> IF c = "Id" THEN <<32>> ELSE <<>>,
     numeric_precision_radix |-> IF c = "Id" THEN <<2>> ELSE <<>>]

\* A schema name is held as the pieces of its text; a "$" and the character
\* after it are pieces of their own, and the grave accent is held by its
\* code point, U+0060.  The last reply has the schemas public, s$&, $$,
\* $ with a grave accent, and $'x$1.
SchemaReplies ==
    {<<>>, <<SchemaRow(<<"public">>)>>,
     <<SchemaRow(<<"public">>), SchemaRow(<<"s", "$", "&">>), SchemaRow(<<"$", "$">>),
       SchemaRow(<<"$", "U+0060">>), SchemaRow(<<"$", "'", "x", "$", "1">>)>>}
TableReplies(s) == {<<>>, <<TableRow(s, "Episodes")>>, <<TableRow(s, "Episodes"), TableRow(s, "Series")>>}
ColumnReplies(s, t) == {<<>>, <<ColumnRow(s, t, "Id")>>, <<ColumnRow(s, t, "Id"), ColumnRow(s, t, "Title")>>}
\* The columns of a schema.  The query has ORDER BY "table_schema",
\* "table_name"; the handlers do not rely on it, so the last reply has the
\* rows of one table apart.
SchemaColumnReplies(s) ==
    {<<>>, <<ColumnRow(s, "Episodes", "Id")>>,
     <<ColumnRow(s, "Episodes", "Id"), ColumnRow(s, "Episodes", "Title"), ColumnRow(s, "Series", "Id")>>,
     <<ColumnRow(s, "Episodes", "Id"), ColumnRow(s, "Series", "Id"), ColumnRow(s, "Episodes", "Title")>>}

----------------------------------------------------------------------------
(* Handlers of mcp/postgres-query/src/mcp-server.ts, each from the point   *)
(* where `await queryAsync(...)` returns `result`.                         *)

\* An awaited promise that rejects makes the async handler reject
Rejected == Return(Raised(<<"rejected">>))

pingHandlerAsync(result) ==
    IF result.threw THEN Rejected
    ELSE IF result.error
    THEN Return(Error(<<"Connection failed: ">> \o ErrToString(result.message)))
    ELSE Return(OkText(<<"pong">>))

listSchemasHandlerAsync(result) ==
    IF result.threw THEN Rejected
    ELSE IF result.error
    THEN Return(Error(<<"Error listing schemas: ">> \o ErrToString(result.message)))
    ELSE Return(Ok(<<"Found ", ToString(Len(result.data)), " schemas in the database">>,
                   [schemas |-> [i \in DOMAIN result.data |-> result.data[i].schema_name]]))

listTablesHandlerAsync(args, result) ==
    IF result.threw THEN Rejected
    ELSE IF result.error
    THEN Return(Error(<<"Error listing tables: ">> \o ErrToString(result.message)))
    ELSE Return(Ok(<<"Found ", ToString(Len(result.data)), " tables in the '", args.schema, "' schema">>,
                   [tables |-> [i \in DOMAIN result.data |->
                        [schema |-> result.data[i].table_schema,
                         name |-> result.data[i].table_name]]]))

\* The column descriptor both describe handlers build from a catalog row
ColumnOf(value) ==
    [name |-> value.column_name, type |-> value.data_type,
     identity |-> value.identity, required |-> value.required,
     char_max_length |-> value.character_maximum_length,
     num_precision |-> value.numeric_precision,
     num_precision_radix |-> value.numeric_precision_radix]

describeTableHandlerAsync(args, result) ==
    IF result.threw THEN Rejected
    ELSE IF result.error
    THEN Return(Error(<<"Error describing table: ">> \o ErrToString(result.message)))
    ELSE Return(Ok(<<"Found ", ToString(Len(result.data)), " columns in the '",
                     args.schema, ".\"", args.table, "\"' table">>,
                   [schema |-> args.schema, table |-> args.table,
                    columns |-> [i \in DOMAIN result.data |-> ColumnOf(result.data[i])]]))

\* tables.findIndex(row => row.schema == schema && row.name == name), 0 for -1
FindIndex(tables, schema, name) ==
    LET hits == {i \in DOMAIN tables : tables[i].schema = schema /\ tables[i].name = name}
    IN IF hits = {} THEN 0 ELSE CHOOSE i \in hits : \A j \in hits : i <= j

\* GroupRow looking at the last table only, as if the rows came grouped
GroupRowAdjacent(tables, value) ==
    LET same == tables # <<>> /\ tables[Len(tables)].schema = value.table_schema
                              /\ tables[Len(tables)].name = value.table_name
        grown == IF same THEN tables
                 ELSE Append(tables, [schema |-> value.table_schema,
                                      name |-> value.table_name, columns |-> <<>>])
    IN [grown EXCEPT ![Len(grown)].columns = Append(@, ColumnOf(value))]

\* One step of result.data.forEach: push the table if it is new, then push
\* the column onto the table found
GroupRow(tables, value) ==
    LET found == FindIndex(tables, value.table_schema, value.table_name)
        grown == IF found = 0
                 THEN Append(tables, [schema |-> value.table_schema,
                                      name |-> value.table_name, columns |-> <<>>])
                 ELSE tables
        index == IF found = 0 THEN Len(grown) ELSE found
    IN [grown EXCEPT ![index].columns = Append(@, ColumnOf(value))]

RECURSIVE GroupRows(_, _)
GroupRows(tables, data) ==
    IF data = <<>> THEN tables ELSE GroupRows(GroupRow(tables, Head(data)), Tail(data))

\* new Set(result.data.map(value => value.table_name)).size
TableCount(data) == Cardinality({data[i].table_name : i \in DOMAIN data})

describeTablesHandlerAsync(args, result) ==
    IF result.threw THEN Rejected
    ELSE IF result.error
    THEN Return(Error(<<"Error describing tables: ">> \o ErrToString(result.message)))
    ELSE Return(Ok(<<"Found ", ToString(TableCount(result.data)), " tables in the '",
                     args.schema, "' schema">>,
                   [tables |-> GroupRows(<<>>, result.data)]))

\* queryHandlerAsync reporting a result of no rows as an error
queryHandlerEmptyIsError(result) ==
    IF result.threw THEN Rejected
    ELSE IF result.error
    THEN Return(Error(<<"Error querying database: ">> \o ErrToString(result.message)))
    ELSE IF Len(result.data) = 0
    THEN Return(Error(<<"No result found">>))
    ELSE Return(Ok(<<"Found ", ToString(Len(result.data)), " results from the query">>,
                   [rowCount |-> Len(result.data), rows |-> result.data]))

queryHandlerAsync(result) ==
    IF result.threw THEN Rejected
    ELSE IF result.error
    THEN Return(Error(<<"Error querying database: ">> \o ErrToString(result.message)))
    ELSE IF Len(result.data) = 0
    THEN Return(Ok(<<"No result found">>, [rowCount |-> 0, rows |-> <<>>]))
    ELSE Return(Ok(<<"Found ", ToString(Len(result.data)), " results from the query">>,
                   [rowCount |-> Len(result.data), rows |-> result.data]))

----------------------------------------------------------------------------
(* Handlers of the `postgres` server (mcp/csv-generator/src/mcp-server.ts, *)
(* second half), each from the point where queryAsync returns `result`.    *)

\* The resource's uri template, as the pieces of its text
resTableSchemaUri == <<"postgres://schemas/", "{schema}", "/tables">>

\* What String.prototype.replace puts for a replacement string.  The
\* pattern is a string, so there are no captures: $$ is a "$", $& the text
\* matched, $ and a grave accent the text before the match, $' the text
\* after it, and any other "$" stays as it is.
RECURSIVE GetSubstitution(_, _, _, _)
GetSubstitution(matched, before, after, replacement) ==
    IF replacement = <<>> THEN <<>>
    ELSE IF Head(replacement) = "$" /\ Len(replacement) >= 2
                /\ replacement[2] \in {"$", "&", "U+0060", "'"}
    THEN LET c == replacement[2]
             rest == SubSeq(replacement, 3, Len(replacement))
         IN (CASE c = "$" -> <<"$">>
               [] c = "&" -> matched
               [] c = "U+0060" -> before
               [] c = "'" -> after)
              \o GetSubstitution(matched, before, after, rest)
    ELSE <<Head(replacement)>> \o GetSubstitution(matched, before, after, Tail(replacement))

\* text.replace(pattern, replacement) for a string pattern: the first
\* occurrence is replaced; the text is returned as it is when there is none
replace(text, pattern, replacement) ==
    LET hits == {i \in DOMAIN text : text[i] = pattern}
    IN IF hits = {} THEN text
       ELSE LET at == CHOOSE i \in hits : \A j \in hits : i <= j
                before == SubSeq(text, 1, at - 1)
                after == SubSeq(text, at + 1, Len(text))
            IN before \o GetSubstitution(<<pattern>>, before, after, replacement) \o after

\* The resource template's list callback
listTableSchemaUrisAsync(result) ==
    IF result.threw THEN Rejected
    ELSE IF result.error
    THEN Return(Ok(<<>>, [resources |-> <<>>]))
    ELSE Return(Ok(<<>>, [resources |-> [i \in DOMAIN result.data |->
                    [name |-> <<"table_schema", "_">> \o result.data[i].schema_name,
                     title |-> <<"Table Schema", ": ">> \o result.data[i].schema_name,
                     description |-> <<"Describes the table schema of the database", " under '">>
                                         \o result.data[i].schema_name \o <<"' schema">>,
                     uri |-> replace(resTableSchemaUri, "{schema}",
                                     result.data[i].schema_name)]]]))

readTableSchemaHandlerAsync(args, result) ==
    IF result.threw THEN Rejected
    ELSE IF result.error
    THEN Return(Error(<<"Error describing tables: ">> \o ErrToString(result.message)))
    ELSE IF Len(result.data) = 0
    THEN Return(OkText(<<"Schema '", args.schema, "' not found in database">>))
    ELSE Return(Ok(<<"application/json">>,
                   [i \in DOMAIN result.data |->
                       [table_name |-> <<args.schema, ".\"", result.data[i].table_name, "\"">>,
                        column_name |-> result.data[i].column_name,
                        column_type |-> result.data[i].data_type,
                        column_identity |-> result.data[i].identity,
                        column_required |-> result.data[i].required,
                        column_char_max_length |-> result.data[i].character_maximum_length,
                        column_num_precision |-> result.data[i].numeric_precision,
                        column_num_precision_radix |-> result.data[i].numeric_precision_radix]]))

postgres_pingHandlerAsync(result) ==
    IF result.threw THEN Rejected
    ELSE IF result.error
    THEN Return(Error(<<"Connection failed: ">> \o ErrToString(result.message)))
    ELSE Return(OkText(<<"pong">>))

postgres_listTablesHandlerAsync(args, result) ==
    IF result.threw THEN Rejected
    ELSE IF result.error
    THEN Return(Error(<<"Error listing tables: ">> \o ErrToString(result.message)))
    ELSE Return(Ok(<<"Found ", ToString(Len(result.data)), " tables in the '", args.schema, "' schema">>,
                   [tables |-> [i \in DOMAIN result.data |->
                        [schema |-> result.data[i].table_schema,
                         name |-> result.data[i].table_name]]]))

postgres_describeTablesHandlerAsync(args, result) ==
    IF result.threw THEN Rejected
    ELSE IF result.error
    THEN Return(Error(<<"Error describing tables: ">> \o ErrToString(result.message)))
    ELSE Return(Ok(<<"Found ", ToString(TableCount(result.data)), " tables in the '",
                     args.schema, "' schema">>,
                   [tables |-> GroupRows(<<>>, result.data)]))

runQueryHandlerAsync(result) ==
    IF result.threw THEN Rejected
    ELSE IF result.error
    THEN Return(Error(<<"Error querying database: ">> \o ErrToString(result.message)))
    ELSE IF Len(result.data) = 0
    THEN Return(Ok(<<"No result found">>, [rowCount |-> 0, rows |-> <<>>]))
    ELSE Return(Ok(<<"Found ", ToString(Len(result.data)), " results from the query">>,
                   [rowCount |-> Len(result.data), rows |-> result.data]))

\* saveQueryResultHandlerAsync without its `result.data.length === 0` return
saveQueryResultNoEmptyCheck(args, result) ==
    IF result.threw THEN Return(Raised(<<"rejected">>))
    ELSE IF result.error
    THEN Return(Error(<<"Error querying database: ">> \o ErrToString(result.message)))
    ELSE Step("opening", NoOutcome, StreamAt(join(args.path, args.filename)))

\* The write stream created before the result is looked at
saveQueryResultOpensFirst(args, result) ==
    IF result.threw THEN Rejected
    ELSE Step("opening", NoOutcome, StreamAt(join(args.path, args.filename)))

\* Up to the promise that waits for the stream: fullPath '' is the path <<>>
saveQueryResultHandlerAsync(args, result) ==
    IF result.threw THEN Rejected
    ELSE IF result.error
    THEN Return(Error(<<"Error querying database: ">> \o ErrToString(result.message)))
    ELSE IF Len(result.data) = 0
    THEN Return(Ok(<<"No CSV file generated because no result was found">>,
                   [rowCount |-> 0, fullPath |-> <<>>]))
    ELSE Step("opening", NoOutcome, StreamAt(join(args.path, args.filename)))

\* writableStream.on('finish', ...) of saveQueryResultHandlerAsync
saveQueryResultFinish(args, result, fullPath) ==
    Ok(<<"Created \"", ToString(args.filename), "\" file with ",
         ToString(Len(result.data)), " rows">>,
       [rowCount |-> Len(result.data), fullPath |-> fullPath])

\* writableStream.on('error', ...) of saveQueryResultHandlerAsync
saveQueryResultError(err) == Error(<<"Error creating file: ", err.message>>)

----------------------------------------------------------------------------
(* The csv-generator server's tool (mcp/csv-generator/src/mcp-server.ts,   *)
(* first half).                                                            *)

\* Up to the promise that waits for the stream
createFromJsonToFSHandlerAsync(args) ==
    Step("opening", NoOutcome, StreamAt(join(args.path, args.filename)))

\* writableStream.on('finish', ...)
createFromJsonToFSFinish(args, fullPath) ==
    Ok(<<"Created \"", ToString(args.filename), "\" file with ",
         ToString(Len(args.contents)), " rows">>,
       [fullPath |-> fullPath, rowCount |-> Len(args.contents)])

\* writableStream.on('error', ...)
createFromJsonToFSError(err) == Error(<<"Error creating file: ", err.message>>)

----------------------------------------------------------------------------
(* Requests.                                                               *)

Args(schema, table, filename, path, contents, parameterizedQuery, values) ==
    [schema |-> schema, table |-> table, filename |-> filename, path |-> path,
     contents |-> contents, parameterizedQuery |-> parameterizedQuery, values |-> values]
NoArgs == Args("", "", <<>>, <<>>, <<>>, "", <<>>)
SchemaArgs(schema) == Args(schema, "", <<>>, <<>>, <<>>, "", <<>>)
TableArgs(schema, table) == Args(schema, table, <<>>, <<>>, <<>>, "", <<>>)
FileArgs(filename, path, contents) == Args("", "", filename, path, contents, "", <<>>)
QueryArgs(parameterizedQuery, values) ==
    Args("", "", <<>>, <<>>, <<>>, parameterizedQuery, values)
SaveArgs(parameterizedQuery, values, filename, path) ==
    Args("", "", filename, path, <<>>, parameterizedQuery, values)

\* What a caller can pass as `parameterizedQuery` and `values`: the values
\* are an array of anything
CallerQueries == {"SELECT * FROM \"Series\" WHERE \"Id\" > $1 AND \"Id\" < $2;"}
ValueLists == {<<Num(0), Num(9)>>, <<Num(0), BigInt(9)>>}

\* The statement and the values a handler passes to queryAsync
Query(text, values) == [text |-> text, values |-> values]
NoQuery == Query("", <<>>)

SelectSchemas ==
    "SELECT \"schema_name\" FROM information_schema.\"schemata\""
        \o " WHERE \"schema_name\" NOT LIKE 'pg_%'"
        \o " AND \"schema_name\" <> 'information_schema'"
SelectTables ==
    "SELECT \"table_schema\", \"table_name\" FROM information_schema.\"tables\""
        \o " WHERE \"table_type\" = 'BASE TABLE'"
ColumnFields ==
    " \"column_name\", \"data_type\","
        \o " CASE \"is_identity\" WHEN 'NO' THEN false ELSE true END AS \"identity\","
        \o " CASE \"is_nullable\" WHEN 'NO' THEN false ELSE true END AS \"required\","
        \o " \"character_maximum_length\", \"numeric_precision\", \"numeric_precision_radix\""
        \o " FROM information_schema.\"columns\""

QueryOf(op, args) ==
    CASE op \in {"ping", "postgres_ping"} -> Query("SELECT 1", <<>>)
      [] op \in {"list_schemas", "table_schema.list"} -> Query(SelectSchemas, <<>>)
      [] op \in {"list_tables", "postgres_list_tables"} ->
            IF args.schema # ""
            THEN Query(SelectTables \o " AND \"table_schema\" = $1;", <<Str(<<args.schema>>)>>)
            ELSE Query(SelectTables \o ";", <<>>)
      [] op = "describe_table" ->
            Query("SELECT" \o ColumnFields
                      \o " WHERE \"table_name\" = $1 AND \"table_schema\" = $2;",
                  <<Str(<<args.table>>), Str(<<args.schema>>)>>)
      [] op \in {"describe_tables", "postgres_describe_tables"} ->
            Query("SELECT \"table_schema\", \"table_name\"," \o ColumnFields
                      \o " WHERE \"table_schema\" = $1 ORDER BY \"table_schema\", \"table_name\";",
                  <<Str(<<args.schema>>)>>)
      [] op = "table_schema.read" ->
            Query("SELECT \"table_name\"," \o ColumnFields \o " WHERE \"table_schema\" = $1;",
                  <<Str(<<args.schema>>)>>)
      [] OTHER -> Query(args.parameterizedQuery, args.values)

\* The three servers: `new McpServer({ name: ... })`
Servers == {"csv-generator", "postgres", "postgres-query"}

\* The servers that import './postgresql'
PoolServers == {"postgres", "postgres-query"}

\* The server a tool or resource is registered on
ServerOf(op) ==
    CASE op = "create_fromjson_tofs" -> "csv-generator"
      [] op \in {"ping", "list_schemas", "list_tables", "describe_table",
                 "describe_tables", "query"} -> "postgres-query"
      [] OTHER -> "postgres"

\* The tools and resources that query the store, with their arguments
QueryCalls ==
    {[op |-> o, args |-> NoArgs] :
        o \in {"ping", "list_schemas", "table_schema.list", "postgres_ping"}}
      \cup {[op |-> o, args |-> QueryArgs(t, v)] :
              o \in {"query", "postgres_run_query"}, t \in CallerQueries, v \in ValueLists}
      \cup {[op |-> o, args |-> SchemaArgs(s)] :
              o \in {"list_tables", "describe_tables", "table_schema.read",
                     "postgres_list_tables", "postgres_describe_tables"}, s \in Schemas}
      \cup {[op |-> "describe_table", args |-> TableArgs(s, t)] : s \in Schemas, t \in Tables}
      \cup {[op |-> "postgres_save_query_result", args |-> SaveArgs(t, v, f, p)] :
              t \in CallerQueries, v \in ValueLists, f \in Filenames, p \in Paths}

CreateCalls(filenames, contents) ==
    {[op |-> "create_fromjson_tofs", args |-> FileArgs(f, p, c)] :
        f \in filenames, p \in Paths, c \in contents}

\* The row sequences the store can answer a handler's query with
Replies(op, args, rows) ==
    CASE op \in {"ping", "postgres_ping"} -> {<<[one |-> 1]>>}
      [] op \in {"list_schemas", "table_schema.list"} -> SchemaReplies
      [] op \in {"list_tables", "postgres_list_tables"} -> TableReplies(args.schema)
      [] op = "describe_table" -> ColumnReplies(args.schema, args.table)
      [] op \in {"describe_tables", "postgres_describe_tables", "table_schema.read"} ->
            SchemaColumnReplies(args.schema)
      [] OTHER -> rows

\* The handler registered for `op`, resumed with the query's result
Resume(op, args, result) ==
    CASE op = "ping" -> pingHandlerAsync(result)
      [] op = "list_schemas" -> listSchemasHandlerAsync(result)
      [] op = "list_tables" -> listTablesHandlerAsync(args, result)
      [] op = "describe_table" -> describeTableHandlerAsync(args, result)
      [] op = "describe_tables" -> describeTablesHandlerAsync(args, result)
      [] op = "query" -> queryHandlerAsync(result)
      [] op = "table_schema.list" -> listTableSchemaUrisAsync(result)
      [] op = "table_schema.read" -> readTableSchemaHandlerAsync(args, result)
      [] op = "postgres_ping" -> postgres_pingHandlerAsync(result)
      [] op = "postgres_list_tables" -> postgres_listTablesHandlerAsync(args, result)
      [] op = "postgres_describe_tables" -> postgres_describeTablesHandlerAsync(args, result)
      [] op = "postgres_run_query" -> runQueryHandlerAsync(result)
      [] op = "postgres_save_query_result" -> saveQueryResultHandlerAsync(args, result)

Idle ==
    [op |-> "none", args |-> NoArgs, pc |-> "idle", query |-> NoQuery, queries |-> 0,
     thrown |-> NoErr, result |-> NoResult, stream |-> NoStream,
     before |-> <<>>, bytesWritten |-> 0, shortWrites |-> 0, writeEnd |-> 0,
     emitted |-> NoErr, late |-> NoErr, outcome |-> NoOutcome]

\* The rows a request's stringifier was given
StreamRows(q) == IF q.op = "create_fromjson_tofs" THEN q.args.contents ELSE q.result.data

Put(f, path, content) ==
    [p \in DOMAIN f \cup {path} |-> IF p = path THEN content ELSE f[p]]

\* A file: the lines that end with the record delimiter, and the bytes
\* that follow the last delimiter
File(lines, rest) == [lines |-> lines, rest |-> rest]
EmptyFile == File(<<>>, <<>>)

\* What reading the file line by line gives
ReadLines(f) == IF f.rest = <<>> THEN f.lines ELSE Append(f.lines, f.rest)

\* The bytes of a sequence of lines, and the lines of a sequence of bytes
RECURSIVE Flatten(_)
Flatten(lines) ==
    IF lines = <<>> THEN <<>> ELSE Head(lines) \o <<NL>> \o Flatten(Tail(lines))

RECURSIVE SplitLines(_, _)
SplitLines(bytes, cur) ==
    IF bytes = <<>> THEN (IF cur = <<>> THEN <<>> ELSE <<cur>>)
    ELSE IF Head(bytes) = NL THEN <<cur>> \o SplitLines(Tail(bytes), <<>>)
    ELSE SplitLines(Tail(bytes), Append(cur, Head(bytes)))

Bytes(f) == Flatten(f.lines) \o f.rest

FromBytes(bytes) ==
    LET ends == {i \in DOMAIN bytes : bytes[i] = NL}
        last == IF ends = {} THEN 0 ELSE CHOOSE i \in ends : \A j \in ends : j <= i
    IN File(SplitLines(SubSeq(bytes, 1, last), <<>>), SubSeq(bytes, last + 1, Len(bytes)))

\* The byte a file reads as where nothing was written: a write past the
\* end of a file leaves a hole of zero bytes
NUL == "\\0"

\* The write stream's buffer size, createWriteStream's default
\* highWaterMark: 16 KiB, and 64 KiB in newer releases of Node.js
HighWaterMarks == {16384, 65536}

\* The number of bytes of the lines lo..hi
RECURSIVE LineBytes(_, _, _)
LineBytes(lines, lo, hi) ==
    IF lo > hi THEN 0
    ELSE IF lo = hi THEN Len(lines[lo]) + 1
    ELSE LET mid == (lo + hi) \div 2
         IN LineBytes(lines, lo, mid) + LineBytes(lines, mid + 1, hi)

\* The first line of lo..hi with which the lines from lo on have `need`
\* bytes or more; hi when they have fewer
RECURSIVE FirstReach(_, _, _, _)
FirstReach(lines, lo, hi, need) ==
    IF lo >= hi THEN hi
    ELSE LET mid == (lo + hi) \div 2
             left == LineBytes(lines, lo, mid)
         IN IF left >= need THEN FirstReach(lines, lo, mid, need)
            ELSE FirstReach(lines, mid + 1, hi, need - left)

\* The number of bytes of all the lines
OutputBytes(lines) == LineBytes(lines, 1, Len(lines))

\* The number of the lines that lie whole within the first n bytes
LinesWithin(lines, n) ==
    LET e == FirstReach(lines, 1, Len(lines), n)
    IN IF e = 0 THEN 0
       ELSE IF LineBytes(lines, 1, e) <= n THEN e
       ELSE e - 1

\* The first n bytes of the lines, as a file
Prefix(lines, n) ==
    LET m == LinesWithin(lines, n)
    IN File(SubSeq(lines, 1, m),
            IF m < Len(lines) THEN SubSeq(lines[m + 1], 1, n - LineBytes(lines, 1, m))
            ELSE <<>>)

\* fs.write on a descriptor opened with flags 'w', at the descriptor's own
\* position, which is past the bytes the stream wrote before: the bytes
\* from + 1 .. to of the lines replace what the file holds there, and what
\* the file holds before and past them stays
WriteAt(old, lines, from, to) ==
    IF old = Prefix(lines, from) THEN Prefix(lines, to)
    ELSE LET o == Bytes(old)
             n == Bytes(Prefix(lines, to))
             len == IF Len(o) > to THEN Len(o) ELSE to
         IN FromBytes([i \in 1..len |->
                          IF i > from /\ i <= to THEN n[i]
                          ELSE IF i <= Len(o) THEN o[i]
                          ELSE NUL])

\* The writes the piped stream issues, each as the number of lines written
\* once it is done.  The stringifier's chunks are lines.  While a write is
\* in flight (at first: the open) the chunks are buffered, until the
\* buffer reaches the highWaterMark and the pipe pauses the stringifier;
\* the buffered chunks then go out as one write.  After 'drain' the next
\* chunk is written on its own (need = 0) and those after it are buffered
\* as before.
RECURSIVE WriteEnds(_, _, _, _)
WriteEnds(lines, written, hwm, need) ==
    IF written >= Len(lines) THEN <<>>
    ELSE IF need = 0
    THEN LET left == hwm - (Len(lines[written + 1]) + 1)
         IN <<written + 1>>
              \o WriteEnds(lines, written + 1, hwm, IF left > 0 THEN left ELSE 0)
    ELSE LET end == FirstReach(lines, written + 1, Len(lines), need)
         IN <<end>> \o WriteEnds(lines, end, hwm, 0)

\* The number of lines written once the stream's next write is done
NextEnd(lines, written, hwm) ==
    LET ends == WriteEnds(lines, 0, hwm, hwm)
        later == {i \in DOMAIN ends : ends[i] > written}
    IN IF later = {} THEN Len(lines)
       ELSE ends[CHOOSE i \in later : \A j \in later : i <= j]

\* The cast of one of the request's rows throws
Throws(q) == FirstThrow(Columns(StreamRows(q)), StreamRows(q)) # 0

\* Number.parseInt(text, 10): the decimal digits text starts with, after
\* leading white space and an optional sign; NaN when there is none
DigitChars == {Digit(d) : d \in 0..9}
DigitValue(c) == CHOOSE d \in 0..9 : Digit(d) = c
\* StrWhiteSpaceChar: white space and line terminators.  A character with
\* no ASCII text is held by its code point.
WhiteSpace ==
    {" ", "\t", "\n", "\r", "\f", "U+000B", "U+00A0", "U+FEFF", "U+1680",
     "U+2000", "U+2001", "U+2002", "U+2003", "U+2004", "U+2005", "U+2006",
     "U+2007", "U+2008", "U+2009", "U+200A", "U+2028", "U+2029", "U+202F",
     "U+205F", "U+3000"}
RECURSIVE TrimStart(_)
TrimStart(text) ==
    IF text # <<>> /\ Head(text) \in WhiteSpace THEN TrimStart(Tail(text)) ELSE text
\* The number the leading digits give.  Numbers are kept exact up to
\* PortDigitsLimit and held there when the digits give more; the
\* constructor compares the number with 65535 only.
PortDigitsLimit == 100000000
RECURSIVE ParseDigits(_, _)
ParseDigits(text, n) ==
    IF text = <<>> \/ Head(text) \notin DigitChars THEN n
    ELSE IF 10 * n + DigitValue(Head(text)) >= PortDigitsLimit
    THEN ParseDigits(Tail(text), PortDigitsLimit)
    ELSE ParseDigits(Tail(text), 10 * n + DigitValue(Head(text)))
parseInt(text) ==
    LET trimmed == TrimStart(text)
        signed == trimmed # <<>> /\ Head(trimmed) \in {"-", "+"}
        digits == IF signed THEN Tail(trimmed) ELSE trimmed
    IN IF digits = <<>> \/ Head(digits) \notin DigitChars THEN [nan |-> TRUE, n |-> 0]
       ELSE [nan |-> FALSE,
             n |-> IF signed /\ Head(trimmed) = "-" THEN 0 - ParseDigits(digits, 0)
                   ELSE ParseDigits(digits, 0)]

\* The environment: a variable that is unset or empty is <<>>
Env(port, database, user, password) ==
    [PGPORT |-> port, PGDATABASE |-> database, PGUSER |-> user, PGPASSWORD |-> password]
ValidEnv == Env(<<"5", "4", "3", "2">>, <<"d", "b">>, <<"u">>, <<"p", "w">>)
Envs ==
    {ValidEnv,
     [ValidEnv EXCEPT !.PGPORT = <<" ", "U+000B", "8", "0">>],
     [ValidEnv EXCEPT !.PGPORT = <<"a", "b", "c">>],
     [ValidEnv EXCEPT !.PGPORT = <<"7", "0", "0", "0", "0">>],
     [ValidEnv EXCEPT !.PGDATABASE = <<>>],
     [ValidEnv EXCEPT !.PGUSER = <<>>],
     [ValidEnv EXCEPT !.PGPASSWORD = <<>>]}

\* The PostgreSQL constructor ends the process with process.exit(1): PGPORT
\* (5432 when unset) is not a number or is above 65535, or PGDATABASE,
\* PGUSER or PGPASSWORD is unset or empty
ConstructorExits(e) ==
    LET pgport == IF e.PGPORT = <<>> THEN <<"5", "4", "3", "2">> ELSE e.PGPORT
        parsedPgPort == parseInt(pgport)
    IN \/ parsedPgPort.nan
       \/ parsedPgPort.n > 65535
       \/ e.PGDATABASE = <<>>
       \/ e.PGUSER = <<>>
       \/ e.PGPASSWORD = <<>>

\* pool.query on a pool that end() was called on
PoolEndedError ==
    Err("Error", "Cannot use a pool after calling end on the pool", <<>>)

\* Neither process.exit nor an uncaught exception has ended the server's
\* process
Running(s) == exitCode[s] = 0

\* The server whose handler serves the request
Server(r) == ServerOf(req[r].op)

Init ==
    /\ env \in Envs
    /\ exitCode = [s \in Servers |-> 0]
    /\ poolEnding = [s \in Servers |-> FALSE]
    /\ instance = [s \in Servers |-> FALSE]
    /\ poolCount = [s \in Servers |-> 0]
    /\ poolClient = [s \in Servers |-> 0]
    /\ poolQueue = [s \in Servers |-> <<>>]
    /\ req = [r \in Clients |-> Idle]
    /\ fs = <<>>

\* The servers started with every variable set
InitSet == Init /\ env = ValidEnv

\* A getInstance that constructs a PostgreSQL and a pool on every call
getInstanceEveryCall(s) ==
    /\ instance' = [instance EXCEPT ![s] = TRUE]
    /\ poolCount' = [poolCount EXCEPT ![s] = @ + 1]

\* PostgreSQL.getInstance(): the constructor runs once and builds the pool
\* unless one is there
getInstance(s) ==
    /\ instance' = [instance EXCEPT ![s] = TRUE]
    /\ poolCount' = [poolCount EXCEPT ![s] = IF ~instance[s] /\ @ = 0 THEN 1 ELSE @]

\* A tool or resource call that starts with
\* `await PostgreSQL.getInstance().queryAsync(...)`, on the server the tool
\* is registered on.  The first getInstance runs the constructor, which may
\* end the server's process.  pool.query takes the pool's client, or queues
\* behind the query holding it; on a pool that end() was called on it
\* rejects at once, and the handler runs on with the error result.  When
\* queryAsync throws for the values, pool.query is not called and the
\* handler rejects.
CallQuery(r, calls) ==
    /\ req[r].pc = "idle"
    /\ \E c \in calls :
         LET s == ServerOf(c.op)
             query == QueryOf(c.op, c.args)
         IN /\ Running(s)
            /\ IF ~instance[s] /\ ConstructorExits(env)
               THEN /\ req' = [req EXCEPT ![r] = [@ EXCEPT !.op = c.op, !.args = c.args,
                                                           !.pc = "exited"]]
                    /\ exitCode' = [exitCode EXCEPT ![s] = 1]
                    /\ UNCHANGED <<instance, poolCount, poolClient, poolQueue>>
               ELSE IF FirstUnserializable(query.values) # 0
               THEN LET result == queryAsync(query.values, ReplyRows(<<>>))
                        step == Resume(c.op, c.args, result)
                    IN /\ req' = [req EXCEPT ![r] = [@ EXCEPT !.op = c.op, !.args = c.args,
                                        !.query = query,
                                        !.result = result, !.pc = step.pc,
                                        !.outcome = step.outcome, !.stream = step.stream]]
                       /\ getInstance(s)
                       /\ UNCHANGED <<exitCode, poolClient, poolQueue>>
               ELSE IF poolEnding[s]
               THEN LET result == queryAsync(query.values, ReplyThrow(PoolEndedError))
                        step == Resume(c.op, c.args, result)
                    IN /\ req' = [req EXCEPT ![r] = [@ EXCEPT !.op = c.op, !.args = c.args,
                                        !.query = query,
                                        !.queries = @ + 1, !.thrown = PoolEndedError,
                                        !.result = result, !.pc = step.pc,
                                        !.outcome = step.outcome, !.stream = step.stream]]
                       /\ getInstance(s)
                       /\ UNCHANGED <<exitCode, poolClient, poolQueue>>
               ELSE /\ req' = [req EXCEPT ![r] = [@ EXCEPT !.op = c.op, !.args = c.args,
                                     !.query = query,
                                     !.queries = @ + 1,
                                     !.pc = IF poolClient[s] = 0 THEN "executing"
                                            ELSE "waiting"]]
                    /\ getInstance(s)
                    /\ IF poolClient[s] = 0
                       THEN /\ poolClient' = [poolClient EXCEPT ![s] = r]
                            /\ UNCHANGED poolQueue
                       ELSE /\ poolQueue' = [poolQueue EXCEPT ![s] = Append(@, r)]
                            /\ UNCHANGED poolClient
                    /\ UNCHANGED exitCode
    /\ UNCHANGED <<env, poolEnding, fs>>

\* pool.query settles for the request holding the client: the client goes
\* to the oldest waiting query (on an ending pool it is removed and the
\* waiting queries stay queued), and the handler runs on to its next await
StoreSettles(r, reply) ==
    LET q == req[r]
        s == Server(r)
        result == queryAsync(q.query.values, reply)
        step == Resume(q.op, q.args, result)
        next == IF poolQueue[s] = <<>> \/ poolEnding[s] THEN 0 ELSE Head(poolQueue[s])
    IN /\ poolClient' = [poolClient EXCEPT ![s] = next]
       /\ poolQueue' = [poolQueue EXCEPT ![s] = IF next = 0 THEN @ ELSE Tail(@)]
       /\ req' = [x \in Clients |->
                    IF x = r THEN [q EXCEPT !.thrown = reply.err, !.result = result, !.pc = step.pc,
                                            !.outcome = step.outcome, !.stream = step.stream]
                    ELSE IF x = next THEN [req[x] EXCEPT !.pc = "executing"]
                    ELSE req[x]]
       /\ UNCHANGED <<env, exitCode, poolEnding, instance, poolCount, fs>>

StoreReplyRows(r, data) ==
    /\ req[r].pc = "executing"
    /\ Running(Server(r))
    /\ poolClient[Server(r)] = r
    /\ \E rows \in Replies(req[r].op, req[r].args, data) : StoreSettles(r, ReplyRows(rows))

StoreReplyError(r) ==
    /\ req[r].pc = "executing"
    /\ Running(Server(r))
    /\ poolClient[Server(r)] = r
    /\ \E err \in StoreErrors : StoreSettles(r, ReplyThrow(err))

\* PostgreSQL.getInstance().closePoolAsync() in the process of server s:
\* pool.end().  From then on pool.query rejects and a released client is
\* removed instead of going to a waiting query.  A second pool.end() rejects
\* and changes nothing.
closePoolAsync(s) ==
    /\ Running(s)
    /\ ~poolEnding[s]
    /\ IF ~instance[s] /\ ConstructorExits(env)
       THEN /\ exitCode' = [exitCode EXCEPT ![s] = 1]
            /\ UNCHANGED <<instance, poolCount, poolEnding>>
       ELSE /\ getInstance(s)
            /\ poolEnding' = [poolEnding EXCEPT ![s] = TRUE]
            /\ UNCHANGED exitCode
    /\ UNCHANGED <<env, poolClient, poolQueue, req, fs>>

\* create_fromjson_tofs: no query; the stream is created at once
CallCreate(r, calls) ==
    /\ req[r].pc = "idle"
    /\ \E c \in calls :
         LET step == createFromJsonToFSHandlerAsync(c.args)
         IN /\ Running(ServerOf(c.op))
            /\ req' = [req EXCEPT ![r] = [@ EXCEPT !.op = c.op, !.args = c.args,
                            !.pc = step.pc, !.outcome = step.outcome, !.stream = step.stream]]
    /\ UNCHANGED <<env, exitCode, poolEnding, instance, poolCount, poolClient, poolQueue, fs>>

\* A row's cast throws inside stringifier.write: the stringifier is
\* destroyed with the error and emits 'error' on the next tick, before any
\* event of the write stream.  Nothing listens for 'error' on the
\* stringifier, so it is thrown as an uncaught exception and the server's
\* process ends with code 1.  The stream's open (flags 'w') was issued
\* before the write and runs on the thread pool while the process ends: it
\* has created or truncated the file, or it has not run.
StringifierError(r) ==
    /\ req[r].pc = "opening"
    /\ Running(Server(r))
    /\ Throws(req[r])
    /\ req' = [req EXCEPT ![r].pc = "crashed"]
    /\ exitCode' = [exitCode EXCEPT ![Server(r)] = 1]
    /\ \/ fs' = Put(fs, req[r].stream.path, EmptyFile)
       \/ UNCHANGED fs
    /\ UNCHANGED <<env, poolEnding, instance, poolCount, poolClient, poolQueue>>

\* An open that keeps what the file holds (flags 'r+' instead of 'w')
StreamOpenNoTruncate(r) ==
    /\ req[r].pc = "opening"
    /\ Running(Server(r))
    /\ ~Throws(req[r])
    /\ fs' = Put(fs, req[r].stream.path,
                 IF req[r].stream.path \in DOMAIN fs THEN fs[req[r].stream.path] ELSE EmptyFile)
    /\ req' = [req EXCEPT ![r].pc = "writing",
                          ![r].before = IF req[r].stream.path \in DOMAIN fs
                                        THEN ReadLines(fs[req[r].stream.path]) ELSE <<>>]
    /\ UNCHANGED <<env, exitCode, poolEnding, instance, poolCount, poolClient, poolQueue>>

\* createWriteStream's open succeeds: the file is created or truncated
StreamOpen(r) ==
    /\ req[r].pc = "opening"
    /\ Running(Server(r))
    /\ ~Throws(req[r])
    /\ fs' = Put(fs, req[r].stream.path, EmptyFile)
    /\ req' = [req EXCEPT ![r].pc = "writing",
                          ![r].before = IF req[r].stream.path \in DOMAIN fs
                                        THEN ReadLines(fs[req[r].stream.path]) ELSE <<>>]
    /\ UNCHANGED <<env, exitCode, poolEnding, instance, poolCount, poolClient, poolQueue>>

\* resolve(value) of `new Promise((resolve) => ...)`: it settles the
\* promise, and does nothing on a promise that is settled
resolve(outcome, value) == IF outcome.kind = "none" THEN value ELSE outcome

\* The outcome the handler's 'error' listener resolves with
OnError(q, err) ==
    IF q.op = "create_fromjson_tofs" THEN createFromJsonToFSError(err)
    ELSE saveQueryResultError(err)

\* The outcome the handler's 'finish' listener resolves with
OnFinish(q) ==
    IF q.op = "create_fromjson_tofs" THEN createFromJsonToFSFinish(q.args, q.stream.path)
    ELSE saveQueryResultFinish(q.args, q.result, q.stream.path)

\* createWriteStream's open fails: 'error' is emitted, nothing is written
StreamOpenError(r) ==
    /\ req[r].pc = "opening"
    /\ Running(Server(r))
    /\ ~Throws(req[r])
    /\ \E err \in OpenErrors :
         req' = [req EXCEPT ![r].pc = "done", ![r].emitted = err,
                            ![r].outcome = resolve(@, OnError(req[r], err))]
    /\ UNCHANGED <<env, exitCode, poolEnding, instance, poolCount, poolClient, poolQueue, fs>>

\* The chunks the request's stringifier puts out; a singleton, so that a
\* step binds it once
Output(q) == {CsvLines(StreamRows(q))}

\* The byte the stream's write in flight ends at, for either buffer size
\* when none is in flight: the bytes up to the end of the next write
WriteTargets(q, lines) ==
    IF q.writeEnd # 0 THEN {q.writeEnd}
    ELSE {LineBytes(lines, 1, NextEnd(lines, LinesWithin(lines, q.bytesWritten), hwm)) :
            hwm \in HighWaterMarks}

\* 'finish' after only the first half of the lines reached the file
StreamWriteSome(r) ==
    /\ req[r].pc = "writing"
    /\ Running(Server(r))
    /\ \E lines \in Output(req[r]) :
         \E to \in {LineBytes(lines, 1, Len(lines) \div 2)} :
            /\ fs' = Put(fs, req[r].stream.path,
                         WriteAt(fs[req[r].stream.path], lines, 0, to))
            /\ req' = [req EXCEPT ![r].pc = "finishing", ![r].bytesWritten = to,
                                  ![r].writeEnd = 0]
    /\ UNCHANGED <<env, exitCode, poolEnding, instance, poolCount, poolClient, poolQueue>>

\* The file takes all the bytes of a write: the stream's next write of the
\* piped stringifier output, or the write of what a short write left.
\* Output below the stream's highWaterMark is one write; more is written in
\* several, each in a turn of the event loop of its own.  After the last
\* one the stream ends.
StreamWrite(r) ==
    /\ req[r].pc = "writing"
    /\ Running(Server(r))
    /\ \E lines \in Output(req[r]) :
         \E to \in WriteTargets(req[r], lines) :
            /\ fs' = Put(fs, req[r].stream.path,
                         WriteAt(fs[req[r].stream.path], lines, req[r].bytesWritten, to))
            /\ req' = [req EXCEPT ![r].pc = IF to = OutputBytes(lines) THEN "finishing"
                                            ELSE "writing",
                                  ![r].bytesWritten = to, ![r].writeEnd = 0]
    /\ UNCHANGED <<env, exitCode, poolEnding, instance, poolCount, poolClient, poolQueue>>

\* Numbers of bytes the file can accept of a write it does not take whole:
\* one, a line and a half, a hundred
AcceptedBytes == {1, 7, 100}

\* A short write: the file takes the first bytes of a write, which can end
\* in the middle of a line.  bytesWritten grows by them and the stream
\* issues a write of the remainder.
StreamWriteShort(r) ==
    /\ req[r].pc = "writing"
    /\ Running(Server(r))
    /\ req[r].shortWrites < MaxShortWrites
    /\ \E lines \in Output(req[r]) :
         \E to \in WriteTargets(req[r], lines), k \in AcceptedBytes :
            /\ req[r].bytesWritten + k < to
            /\ fs' = Put(fs, req[r].stream.path,
                         WriteAt(fs[req[r].stream.path], lines, req[r].bytesWritten,
                                 req[r].bytesWritten + k))
            /\ req' = [req EXCEPT ![r].bytesWritten = @ + k,
                                  ![r].shortWrites = @ + 1,
                                  ![r].writeEnd = to]
    /\ UNCHANGED <<env, exitCode, poolEnding, instance, poolCount, poolClient, poolQueue>>

\* A write fails, the stream's next one or the one issued for the
\* remainder of a short write: 'error' is emitted and the file keeps what
\* it held.  Without rows there is nothing to write and no write to fail.
StreamWriteError(r) ==
    /\ req[r].pc = "writing"
    /\ Running(Server(r))
    /\ Output(req[r]) # {<<>>}
    /\ \E err \in WriteErrors :
         req' = [req EXCEPT ![r].pc = "done", ![r].emitted = err,
                            ![r].writeEnd = 0,
                            ![r].outcome = resolve(@, OnError(req[r], err))]
    /\ UNCHANGED <<env, exitCode, poolEnding, instance, poolCount, poolClient, poolQueue, fs>>

\* 'finish': the handler's promise resolves with the artifact
StreamFinish(r) ==
    /\ req[r].pc = "finishing"
    /\ Running(Server(r))
    /\ req' = [req EXCEPT ![r].pc = "done", ![r].outcome = resolve(@, OnFinish(req[r]))]
    /\ UNCHANGED <<env, exitCode, poolEnding, instance, poolCount, poolClient, poolQueue, fs>>

\* After 'finish' the stream closes its descriptor.  A close that fails
\* makes the stream emit 'error': the handler's 'error' listener runs and
\* calls resolve on the promise that 'finish' settled.
StreamCloseError(r) ==
    /\ req[r].pc = "done"
    /\ Running(Server(r))
    /\ req[r].stream.open
    /\ req[r].emitted = NoErr
    /\ req[r].late = NoErr
    /\ \E err \in CloseErrors :
         req' = [req EXCEPT ![r].late = err,
                            ![r].outcome = resolve(@, OnError(req[r], err))]
    /\ UNCHANGED <<env, exitCode, poolEnding, instance, poolCount, poolClient, poolQueue, fs>>

\* Any number of requests in flight, on small result sets, in a process
\* started with every variable set
Next ==
    \E r \in Req :
        \/ CallQuery(r, QueryCalls)
        \/ CallCreate(r, CreateCalls(Filenames, SmallContents))
        \/ StoreReplyRows(r, SmallStoreRows)
        \/ StoreReplyError(r)
        \/ StringifierError(r)
        \/ StreamOpen(r)
        \/ StreamOpenError(r)
        \/ StreamWrite(r)
        \/ StreamWriteShort(r)
        \/ StreamWriteError(r)
        \/ StreamFinish(r)
        \/ StreamCloseError(r)

Spec == InitSet /\ [][Next]_vars

\* One request, on result sets up to and past the chunk size
NextSolo ==
    \/ CallQuery(1, QueryCalls)
    \/ CallCreate(1, CreateCalls(Filenames, Contents))
    \/ StoreReplyRows(1, StoreRows)
    \/ StoreReplyError(1)
    \/ StringifierError(1)
    \/ StreamOpen(1)
    \/ StreamOpenError(1)
    \/ StreamWrite(1)
    \/ StreamWriteShort(1)
    \/ StreamWriteError(1)
    \/ StreamFinish(1)
    \/ StreamCloseError(1)

SpecSolo == InitSet /\ [][NextSolo]_vars

\* What the event loop delivers to a waiting request: the store's reply to
\* its query, and the events of its streams
StoreEvent(r) == StoreReplyRows(r, SmallStoreRows) \/ StoreReplyError(r)
StreamEvent(r) ==
    \/ StringifierError(r)
    \/ StreamOpen(r)
    \/ StreamOpenError(r)
    \/ StreamWrite(r)
    \/ StreamWriteShort(r)
    \/ StreamWriteError(r)
    \/ StreamFinish(r)

\* One request on small result sets
NextOne ==
    \/ CallQuery(1, QueryCalls)
    \/ CallCreate(1, CreateCalls(Filenames, SmallContents))
    \/ StoreReplyRows(1, SmallStoreRows)
    \/ StoreReplyError(1)
    \/ StringifierError(1)
    \/ StreamOpen(1)
    \/ StreamOpenError(1)
    \/ StreamWrite(1)
    \/ StreamWriteShort(1)
    \/ StreamWriteError(1)
    \/ StreamFinish(1)
    \/ StreamCloseError(1)

\* One request, with the store answering every query and every stream
\* event that is due being delivered
SpecLive ==
    /\ InitSet
    /\ [][NextOne]_vars
    /\ WF_vars(StoreEvent(1))
    /\ WF_vars(StreamEvent(1))

\* The caller has the outcome; the next call can be made
NextCall(r) ==
    /\ req[r].pc = "done"
    /\ Running(Server(r))
    /\ req' = [req EXCEPT ![r] = Idle]
    /\ UNCHANGED <<env, exitCode, poolEnding, instance, poolCount, poolClient, poolQueue, fs>>

\* The files of one report written as parts: "Chunk into files named
\* <basename>.part1.csv, <basename>.part2.csv", then <basename>.csv
PartFilenames == {<<"report.part1.csv">>, <<"report.part2.csv">>, <<"report.csv">>}
PartContents == {DataSet("ids", 1), DataSet("mixed", 3), DataSet("late", 2)}
PartCalls ==
    {c \in CreateCalls(PartFilenames, PartContents) : c.args.path = OutputRoot}

\* create_fromjson_tofs called again and again, one call at a time, on the
\* part files and the combined file of one report
NextParts ==
    \/ CallCreate(1, PartCalls)
    \/ StreamOpen(1)
    \/ StreamOpenError(1)
    \/ StreamWrite(1)
    \/ StreamWriteShort(1)
    \/ StreamWriteError(1)
    \/ StreamFinish(1)
    \/ StreamCloseError(1)
    \/ NextCall(1)

SpecParts == InitSet /\ [][NextParts]_vars

\* The calls that write the report out/report.csv
RerunQueries ==
    {[op |-> "postgres_save_query_result",
      args |-> SaveArgs(t, v, <<"report.csv">>, OutputRoot)] :
        t \in CallerQueries, v \in ValueLists}
RerunCreates ==
    {c \in CreateCalls({<<"report.csv">>}, SmallContents) : c.args.path = OutputRoot}

\* One report written again and again, one call at a time
NextRerun ==
    \/ CallQuery(1, RerunQueries)
    \/ CallCreate(1, RerunCreates)
    \/ StoreReplyRows(1, SmallStoreRows)
    \/ StoreReplyError(1)
    \/ StringifierError(1)
    \/ StreamOpen(1)
    \/ StreamOpenError(1)
    \/ StreamWrite(1)
    \/ StreamWriteShort(1)
    \/ StreamWriteError(1)
    \/ StreamFinish(1)
    \/ StreamCloseError(1)
    \/ NextCall(1)

SpecRerun == Init /\ [][NextRerun]_vars

----------------------------------------------------------------------------
(* Reading a file back, as an RFC 4180 reader does.                        *)

\* The fields of one line: s the field's text, quoted whether it was quoted
RECURSIVE ParseFields(_, _, _, _, _)
ParseFields(rest, cur, inQuotes, quoted, acc) ==
    IF rest = <<>> THEN Append(acc, [quoted |-> quoted, s |-> cur])
    ELSE LET c == Head(rest) IN
         IF inQuotes THEN
             IF c = Q THEN
                 IF Len(rest) >= 2 /\ rest[2] = Q
                 THEN ParseFields(Tail(Tail(rest)), Append(cur, Q), TRUE, TRUE, acc)
                 ELSE ParseFields(Tail(rest), cur, FALSE, TRUE, acc)
             ELSE ParseFields(Tail(rest), Append(cur, c), TRUE, TRUE, acc)
         ELSE IF c = COMMA
         THEN ParseFields(Tail(rest), <<>>, FALSE, FALSE, Append(acc, [quoted |-> quoted, s |-> cur]))
         ELSE IF c = Q THEN ParseFields(Tail(rest), cur, TRUE, TRUE, acc)
         ELSE ParseFields(Tail(rest), Append(cur, c), FALSE, quoted, acc)

ParseLine(line) == ParseFields(line, <<>>, FALSE, FALSE, <<>>)

\* The column names a file's header line gives, and its number of data rows
FileColumns(content) ==
    IF content = <<>> THEN <<>>
    ELSE LET header == ParseLine(content[1]) IN [i \in DOMAIN header |-> header[i].s]
DataRowCount(content) == IF content = <<>> THEN 0 ELSE Len(content) - 1

----------------------------------------------------------------------------
(* What the claims speak of.                                               *)

\* A RowFrame's columns are derived from its first row, and every row's key
\* set is a subset of them
RowFrameColumns(rows) == IF rows = <<>> THEN <<>> ELSE [i \in DOMAIN rows[1] |-> rows[1][i].k]
IsRowFrame(rows) ==
    \A i \in DOMAIN rows : \A j \in DOMAIN rows[i] : HasKey(rows[1], rows[i][j].k)

\* The request serialized its rows and reported the file as created
Serialized(q) == q.pc = "done" /\ q.outcome.kind = "ok" /\ q.stream.open

\* The store has answered the request's query
Answered(q) == q.queries > 0 /\ q.pc \notin {"waiting", "executing"}
\* pool.query threw for the request
StoreFailed(q) == Answered(q) /\ q.thrown # NoErr

Ceil(n, d) == (n + d - 1) \div d

\* <base> of a file name, and <base>.part<i>.csv
BaseName(name) ==
    CASE name = "report.csv" -> "report"
      [] OTHER -> name
PartPath(fullPath, i) ==
    IF fullPath = <<>> THEN <<>>
    ELSE [fullPath EXCEPT ![Len(fullPath)] = BaseName(@) \o ".part" \o ToString(i) \o ".csv"]

\* The data rows part i of n rows holds
PartRows(n, i) == IF i < Ceil(n, ChunkSize) THEN ChunkSize ELSE n - (Ceil(n, ChunkSize) - 1) * ChunkSize

----------------------------------------------------------------------------
\* C1: a result of more than 1000 rows is written as ceil(rowCount / 1000)
\* part files <base>.part1.csv, <base>.part2.csv, ..., each but the last
\* holding 1000 data rows, the last the remainder, none empty.
C1_PartFiles ==
    \A r \in Req :
        LET q == req[r]
            n == Len(StreamRows(q))
        IN (Serialized(q) /\ n > ChunkSize) =>
              \A i \in 1..Ceil(n, ChunkSize) :
                  /\ PartPath(q.stream.path, i) \in DOMAIN fs
                  /\ DataRowCount(ReadLines(fs[PartPath(q.stream.path, i)])) = PartRows(n, i)
                  /\ PartRows(n, i) > 0

\* C2: a RowFrame of at most 1000 rows is written to exactly one file, whose
\* number of data rows is the rowCount (also the rowCount of the artifact)
\* and whose header gives the RowFrame's columns in their order.
C2_SingleFile ==
    \A r \in Req :
        LET q == req[r]
            rows == StreamRows(q)
        IN (Serialized(q) /\ Len(rows) <= ChunkSize /\ IsRowFrame(rows)) =>
              /\ DOMAIN fs = {q.stream.path}
              /\ q.outcome.structured.fullPath = q.stream.path
              /\ DataRowCount(ReadLines(fs[q.stream.path])) = Len(rows)
              /\ q.outcome.structured.rowCount = Len(rows)
              /\ FileColumns(ReadLines(fs[q.stream.path])) = RowFrameColumns(rows)

\* A query result of exactly 1000 rows has been saved
C2_Witness ==
    \E r \in Req :
        /\ Serialized(req[r])
        /\ req[r].op = "postgres_save_query_result"
        /\ Len(req[r].result.data) = ChunkSize

\* C5: the i-th data row of the produced file is the i-th row the store
\* returned (the i-th object of `contents`): nothing reordered, duplicated
\* or dropped.
C5_RowOrder ==
    \A r \in Req :
        LET q == req[r]
            rows == StreamRows(q)
            cols == RowFrameColumns(rows)
        IN Serialized(q) =>
              /\ DataRowCount(ReadLines(fs[q.stream.path])) = Len(rows)
              /\ \A i \in DOMAIN rows :
                    LET fields == ParseLine(ReadLines(fs[q.stream.path])[i + 1])
                    IN /\ Len(fields) = Len(cols)
                       /\ \A c \in DOMAIN cols :
                             fields[c].s = CastValue(Get(rows[i], cols[c]))

\* A query result spanning several chunks has been saved
C5_Witness ==
    \E r \in Req :
        /\ Serialized(req[r])
        /\ req[r].op = "postgres_save_query_result"
        /\ Len(req[r].result.data) > 2 * ChunkSize

\* C6: a query that succeeds with zero rows ends generateReport at once with
\* a success outcome of rowCount 0; no stream is created and no file exists.
C6_EmptyResult ==
    \A r \in Req :
        LET q == req[r]
        IN (q.op = "postgres_save_query_result" /\ Answered(q)
               /\ ~StoreFailed(q) /\ Len(q.result.data) = 0) =>
              /\ q.pc = "done"
              /\ q.outcome.kind = "ok"
              /\ q.outcome.structured.rowCount = 0
              /\ ~q.stream.open
              /\ DOMAIN fs = {}

C6_Witness ==
    \E r \in Req :
        /\ req[r].op = "postgres_save_query_result"
        /\ Answered(req[r])
        /\ ~StoreFailed(req[r])
        /\ Len(req[r].result.data) = 0

\* The data rows held by those of the first k part files that exist
RECURSIVE PartRowSum(_, _)
PartRowSum(fullPath, k) ==
    IF k = 0 THEN 0
    ELSE PartRowSum(fullPath, k - 1)
            + (IF PartPath(fullPath, k) \in DOMAIN fs
               THEN DataRowCount(ReadLines(fs[PartPath(fullPath, k)])) ELSE 0)

\* C3: after the merge, <base>.csv holds the header line once, then the data
\* lines of every part in part order; its data-row count is the sum of the
\* parts' row counts, which is the query's rowCount.
C3_MergedFile ==
    \A r \in Req :
        LET q == req[r]
            n == Len(StreamRows(q))
            merged == ReadLines(fs[q.stream.path])
        IN (Serialized(q) /\ n > ChunkSize) =>
              /\ Cardinality({i \in DOMAIN merged : merged[i] = merged[1]}) = 1
              /\ DataRowCount(merged) = PartRowSum(q.stream.path, Ceil(n, ChunkSize))
              /\ PartRowSum(q.stream.path, Ceil(n, ChunkSize)) = n

\* C7: every path a writer opens, and so every file there is, lies under
\* the output root.
C7_UnderOutputRoot ==
    /\ \A r \in Req : req[r].stream.open => Under(OutputRoot, req[r].stream.path)
    /\ \A p \in DOMAIN fs : Under(OutputRoot, p)

\* C8: a failed query is retried exactly once before the failure is
\* surfaced, with the retry's message; a failed file write is not retried.
C8_OneRetry ==
    \A r \in Req :
        LET q == req[r]
        IN (q.op = "postgres_save_query_result" /\ q.pc = "done") =>
              /\ StoreFailed(q) =>
                    /\ q.queries = 2
                    /\ q.outcome.kind = "error"
                    /\ Contains(q.outcome.text, q.thrown.message)
              /\ (q.stream.open /\ q.outcome.kind = "error") => q.queries = 1

\* C9: queryAsync never rejects, whatever the statement and the values, and
\* no handler's promise rejects; when pool.query throws, queryAsync returns
\* a result with the error flag, what was thrown as the message, and no
\* data, and every tool handler and the resource reader return an error
\* outcome.
C9_NoThrow ==
    \A r \in Req :
        LET q == req[r]
        IN /\ ~q.result.threw
           /\ q.outcome.kind # "raised"
           /\ StoreFailed(q) =>
                 /\ q.result.error
                 /\ q.result.message = q.thrown
                 /\ q.result.data = <<>>
                 /\ q.pc = "done"
                 /\ q.outcome.kind \in {"ok", "error"}
                 /\ q.op # "table_schema.list" => q.outcome.kind = "error"

\* C10: whenever the store query of an operation fails, the outcome the
\* caller gets is marked as an error and carries the original message.
C10_NoErrorSwallowed ==
    \A r \in Req :
        LET q == req[r]
        IN (StoreFailed(q) /\ q.pc = "done") =>
              /\ q.outcome.kind = "error"
              /\ Contains(q.outcome.text, q.thrown.message)

\* Part files 1 and 2 of the report at fullPath are there, neither without
\* rows, with header lines that differ
MismatchedParts(fullPath) ==
    LET p1 == PartPath(fullPath, 1)
        p2 == PartPath(fullPath, 2)
    IN /\ p1 \in DOMAIN fs /\ p2 \in DOMAIN fs
       /\ DataRowCount(ReadLines(fs[p1])) > 0 /\ DataRowCount(ReadLines(fs[p2])) > 0
       /\ ReadLines(fs[p1])[1] # ReadLines(fs[p2])[1]

\* C4: a merge of parts whose header lines differ fails with a
\* header-mismatch error, and <base>.csv is not written: no call that is
\* to write <base>.csv over such parts opens it, and it ends as an error.
C4_HeaderMismatch ==
    \A r \in Req :
        LET q == req[r]
        IN (q.stream.open /\ MismatchedParts(q.stream.path)) =>
              /\ q.pc \notin {"writing", "finishing"}
              /\ q.pc = "done" => q.outcome.kind = "error"

\* The operations that run a caller's query or write a report
ReportOps ==
    {"query", "postgres_run_query", "postgres_save_query_result", "create_fromjson_tofs"}

\* The write stream of the request emitted 'error'
StreamFailed(q) == q.emitted # NoErr

\* The request's stringifier emitted 'error'
StringifierFailed(q) == q.pc = "crashed"

\* C11: a query failure, an error of the stringifier or a file-write
\* failure ends the request as Failed, and the outcome's text carries the
\* message of what pool.query threw, of the stringifier's error, or of the
\* error the write stream emitted, unchanged.
C11_MessageVerbatim ==
    \A r \in Req :
        LET q == req[r]
        IN q.op \in ReportOps =>
              /\ StoreFailed(q) =>
                    /\ q.pc = "done"
                    /\ q.outcome.kind = "error"
                    /\ Contains(q.outcome.text, q.thrown.message)
              /\ StringifierFailed(q) =>
                    /\ q.pc = "done"
                    /\ q.outcome.kind = "error"
                    /\ Contains(q.outcome.text, CastError.message)
              /\ StreamFailed(q) =>
                    /\ q.pc = "done"
                    /\ q.outcome.kind = "error"
                    /\ Contains(q.outcome.text, q.emitted.message)

\* C12: a request has an outcome only in its terminal state; a success
\* artifact is there only once the stream has written every byte of the
\* header and of every row, also when the file took a write in parts; and
\* a terminal request stays terminal with the outcome it has, whatever the
\* stream emits afterwards, so it reports one outcome, Done or Failed.
C12_AllOrNothing ==
    /\ [](\A r \in Req : req[r].outcome.kind # "none" <=> req[r].pc = "done")
    /\ [](\A r \in Req : Serialized(req[r]) =>
              /\ req[r].bytesWritten = OutputBytes(CsvLines(StreamRows(req[r])))
              /\ req[r].emitted = NoErr
              /\ req[r].outcome.structured.rowCount = Len(StreamRows(req[r]))
              /\ req[r].outcome.structured.fullPath = req[r].stream.path)
    /\ [][\A r \in Req : req[r].pc = "done" =>
              /\ req'[r].pc = "done"
              /\ req'[r].outcome = req[r].outcome]_vars

\* One report is Done after a short write and a close that failed, another
\* Failed after the file had taken one byte
C12_Witness ==
    /\ \E r \in Req :
          /\ Serialized(req[r])
          /\ req[r].shortWrites > 0
          /\ req[r].late # NoErr
          /\ Len(StreamRows(req[r])) = 2
    /\ \E r \in Req : StreamFailed(req[r]) /\ req[r].bytesWritten = 1

\* C13: every request that was made eventually has an outcome, a success
\* or an error, whatever its rows hold.
C13_Terminates ==
    \A r \in Req : (req[r].pc # "idle") ~> (req[r].pc = "done")

\* C14: in a produced file every field of a value that is there is quoted
\* and reads back as the value's text (so its quotes were doubled), an
\* empty string is a quoted empty field, and a null or absent value is an
\* unquoted empty field.
C14_Quoting ==
    \A r \in Req :
        LET q == req[r]
            rows == StreamRows(q)
            cols == Columns(rows)
        IN Serialized(q) =>
              \A i \in DOMAIN rows :
                  LET fields == ParseLine(ReadLines(fs[q.stream.path])[i + 1])
                  IN /\ Len(fields) = Len(cols)
                     /\ \A c \in DOMAIN cols :
                           LET v == Get(rows[i], cols[c])
                           IN IF v.t = "null"
                              THEN ~fields[c].quoted /\ fields[c].s = <<>>
                              ELSE fields[c].quoted /\ fields[c].s = CastValue(v)

\* What a reader makes of a field: an unquoted empty field is null, any
\* other field is its text
ReadValue(field) == IF ~field.quoted /\ field.s = <<>> THEN Null ELSE Str(field.s)
\* What a value is once written: null stays null, anything else is its text
TextValue(v) == IF v.t = "null" THEN Null ELSE Str(CastValue(v))
\* The position of column k in a file's header, or 0
ColumnIndex(content, k) ==
    LET cols == FileColumns(content)
        hits == {c \in DOMAIN cols : cols[c] = k}
    IN IF hits = {} THEN 0 ELSE CHOOSE c \in hits : \A d \in hits : c <= d

\* C15: reading a produced file back gives the rows it was made from: the
\* file's columns are the keys of the rows, there is one data line per row,
\* every value of a row is found under its key (null as null, the empty
\* string as the empty string), and a key a row lacks reads as null.
C15_RoundTrip ==
    \A r \in Req :
        LET q == req[r]
            rows == StreamRows(q)
            file == ReadLines(fs[q.stream.path])
        IN Serialized(q) =>
              /\ DataRowCount(file) = Len(rows)
              /\ {FileColumns(file)[c] : c \in DOMAIN FileColumns(file)}
                    = UNION {{rows[i][j].k : j \in DOMAIN rows[i]} : i \in DOMAIN rows}
              /\ \A i \in DOMAIN rows :
                    LET fields == ParseLine(file[i + 1])
                    IN /\ Len(fields) = Len(FileColumns(file))
                       /\ \A j \in DOMAIN rows[i] :
                             LET c == ColumnIndex(file, rows[i][j].k)
                             IN c # 0 /\ ReadValue(fields[c]) = TextValue(rows[i][j].v)
                       /\ \A c \in DOMAIN fields :
                             ~HasKey(rows[i], FileColumns(file)[c]) =>
                                 ReadValue(fields[c]) = Null

DescribeTablesOps == {"describe_tables", "postgres_describe_tables"}

\* The catalog rows of table (schema, name), in the order they came
RowsOfTable(data, schema, name) ==
    SelectSeq(data, LAMBDA d : d.table_schema = schema /\ d.table_name = name)

\* C16: describeTables returns one TableDescriptor for each (schema, table)
\* among the catalog rows and no two for the same one, and the columns of
\* each are those of the table's catalog rows, in the order of the rows.
C16_OnePerTable ==
    \A r \in Req :
        LET q == req[r]
            data == q.result.data
            tables == q.outcome.structured.tables
        IN (q.op \in DescribeTablesOps /\ q.pc = "done" /\ q.outcome.kind = "ok") =>
              /\ \A a, b \in DOMAIN tables :
                    (tables[a].schema = tables[b].schema /\ tables[a].name = tables[b].name)
                        => a = b
              /\ {<<tables[t].schema, tables[t].name>> : t \in DOMAIN tables}
                    = {<<data[i].table_schema, data[i].table_name>> : i \in DOMAIN data}
              /\ \A t \in DOMAIN tables :
                    LET mine == RowsOfTable(data, tables[t].schema, tables[t].name)
                    IN tables[t].columns = [i \in DOMAIN mine |-> ColumnOf(mine[i])]

\* Tables were described from catalog rows in which the rows of one table
\* are apart
C16_Witness ==
    \E r \in Req :
        /\ req[r].op \in DescribeTablesOps
        /\ req[r].pc = "done" /\ req[r].outcome.kind = "ok"
        /\ Len(req[r].result.data) = 3
        /\ req[r].result.data[1].table_name = req[r].result.data[3].table_name
        /\ req[r].result.data[1].table_name # req[r].result.data[2].table_name

\* C17: every TableDescriptor that introspection returns as a success -- the
\* one of describeTable, each one of describeTables -- has at least one
\* column.
C17_ColumnsNonEmpty ==
    \A r \in Req :
        LET q == req[r]
        IN (q.pc = "done" /\ q.outcome.kind = "ok") =>
              /\ q.op = "describe_table" => q.outcome.structured.columns # <<>>
              /\ q.op \in DescribeTablesOps =>
                    \A t \in DOMAIN q.outcome.structured.tables :
                        q.outcome.structured.tables[t].columns # <<>>

RunQueryOps == {"query", "postgres_run_query"}

\* C18: a runQuery whose query the store answered has a success outcome
\* whose rows are the store's rows in the store's order and whose rowCount
\* is their number; for no rows that is rowCount 0 and rows [].
C18_RowCount ==
    \A r \in Req :
        LET q == req[r]
        IN (q.op \in RunQueryOps /\ Answered(q) /\ ~StoreFailed(q)) =>
              /\ q.pc = "done"
              /\ q.outcome.kind = "ok"
              /\ q.outcome.sc
              /\ q.outcome.structured.rows = q.result.data
              /\ q.outcome.structured.rowCount = Len(q.outcome.structured.rows)

\* A query was answered with no rows
C18_Witness ==
    \E r \in Req :
        /\ req[r].op = "query"
        /\ Answered(req[r])
        /\ ~StoreFailed(req[r])
        /\ req[r].result.data = <<>>

\* C19: what a run of generateReport leaves -- the file's content and the
\* artifact -- is determined by its inputs and the store's result alone:
\* the file is the header and rows of this run whatever an earlier run left
\* at the path, so a second run on the same inputs gives the same bytes and
\* the same artifact.
C19_Idempotent ==
    \A r \in Req :
        LET q == req[r]
            rows == StreamRows(q)
        IN Serialized(q) =>
              /\ q.stream.path = join(q.args.path, q.args.filename)
              /\ ReadLines(fs[q.stream.path]) = CsvLines(rows)
              /\ q.outcome.structured =
                    [rowCount |-> Len(rows), fullPath |-> join(q.args.path, q.args.filename)]

\* A run has rewritten, with a write the file took in parts, a path at
\* which an earlier run had left a longer file
C19_Witness ==
    \E r \in Req :
        /\ Serialized(req[r])
        /\ req[r].op = "postgres_save_query_result"
        /\ req[r].shortWrites > 0
        /\ Len(req[r].before) > Len(CsvLines(req[r].result.data))

\* The lines of a are the first lines of b
IsPrefix(a, b) == Len(a) <= Len(b) /\ SubSeq(b, 1, Len(a)) = a

\* C20: the bytes of every file come from a single request: what the file
\* holds is the output, or the first bytes of the output, of one request
\* that opened it, also when two requests in flight were given the same
\* directory and file name.
C20_SingleWriter ==
    \A p \in DOMAIN fs :
        \E r \in Req :
            /\ req[r].stream.open
            /\ req[r].stream.path = p
            /\ IsPrefix(Bytes(fs[p]), Flatten(CsvLines(StreamRows(req[r]))))

-----------------------------------------------------------------------------
(* The connection pool under several requests in flight.                   *)

\* The calls and replies of the pool specification: on each of the two
\* servers with a pool a query that writes no file, and one whose rows go
\* to a report.  The file takes every write whole.
PoolCalls ==
    {[op |-> "ping", args |-> NoArgs],
     [op |-> "postgres_ping", args |-> NoArgs],
     [op |-> "postgres_save_query_result",
      args |-> SaveArgs("SELECT * FROM \"Series\";", <<>>, <<"report.csv">>, <<"out">>)]}
PoolRows == {DataSet("ids", 1), DataSet("dated", 2)}

PoolStoreEvent(r) == StoreReplyRows(r, PoolRows) \/ StoreReplyError(r)

NextPool ==
    \E r \in Clients :
        \/ CallQuery(r, PoolCalls)
        \/ StoreReplyRows(r, PoolRows)
        \/ StoreReplyError(r)
        \/ StringifierError(r)
        \/ StreamOpen(r)
        \/ StreamOpenError(r)
        \/ StreamWrite(r)
        \/ StreamWriteError(r)
        \/ StreamFinish(r)
        \/ StreamCloseError(r)

\* The store answers every query it is running
SpecPool ==
    /\ Init
    /\ [][NextPool]_vars
    /\ \A r \in Clients : WF_vars(PoolStoreEvent(r))

\* The same with a caller that closes the pool.  No handler and no server
\* of the repository calls closePoolAsync, so the specifications above
\* leave it out.
NextShutdown ==
    \/ \E s \in PoolServers : closePoolAsync(s)
    \/ \E r \in Clients :
        \/ CallQuery(r, PoolCalls)
        \/ StoreReplyRows(r, PoolRows)
        \/ StoreReplyError(r)
        \/ StringifierError(r)
        \/ StreamOpen(r)
        \/ StreamOpenError(r)
        \/ StreamWrite(r)
        \/ StreamWriteError(r)
        \/ StreamFinish(r)
        \/ StreamCloseError(r)

SpecShutdown == Init /\ [][NextShutdown]_vars

\* The request holds the pool's client or waits for it
HoldsSlot(r) == \E s \in Servers : poolClient[s] = r \/ Contains(poolQueue[s], r)

\* The client is held by a request exactly while its query is executing,
\* and the queue holds exactly the requests waiting
SlotOnlyWhileExecuting ==
    \A r \in Clients :
        /\ (\E s \in Servers : poolClient[s] = r) <=> req[r].pc = "executing"
        /\ (\E s \in Servers : Contains(poolQueue[s], r)) <=> req[r].pc = "waiting"

\* C21: a request holds the pool's client only while its query executes,
\* never while rows are serialized or a file is written, and every request
\* waiting for the client is eventually given it.
C21_PoolSlot ==
    /\ [](\A r \in Clients :
            req[r].pc \in {"opening", "writing", "finishing", "done", "crashed"} => ~HoldsSlot(r))
    /\ \A r \in Clients : (req[r].pc = "waiting") ~> (req[r].pc # "waiting")

C21_Witness ==
    \E r, w \in Clients :
        /\ req[r].pc = "writing"
        /\ req[w].pc = "executing"
        /\ poolClient[Server(w)] = w

\* While its server's process is running every waiting request is given
\* the client
ServedWhileRunning ==
    \A r \in Clients :
        (req[r].pc = "waiting") ~> (req[r].pc # "waiting" \/ ~Running(Server(r)))

-----------------------------------------------------------------------------
(* File I/O of postgres_save_query_result.                                 *)

\* C22: postgres_save_query_result creates its write stream only after the
\* query returned successfully with at least one row, and no step of a
\* request that has no stream changes the file system; so a request whose
\* query fails leaves the file system as it found it.
C22_QueryBeforeFile ==
    /\ [](\A r \in Req :
            (req[r].op = "postgres_save_query_result" /\ req[r].stream.open) =>
                /\ Answered(req[r])
                /\ ~req[r].result.error
                /\ req[r].thrown = NoErr
                /\ Len(req[r].result.data) >= 1)
    /\ [][\A r \in Req :
            (req'[r].op = "postgres_save_query_result" /\ ~req'[r].stream.open) =>
                fs' = fs]_vars

C22_Witness ==
    \E r \in Req :
        /\ req[r].op = "postgres_save_query_result"
        /\ req[r].pc = "done"
        /\ StoreFailed(req[r])
        /\ req[r].outcome.kind = "error"
        /\ join(req[r].args.path, req[r].args.filename) \in DOMAIN fs
        /\ Len(ReadLines(fs[join(req[r].args.path, req[r].args.filename)])) = 3

-----------------------------------------------------------------------------
(* The header row of a created file.                                       *)

\* The file is one header line naming the columns, then one line per row
HeaderThenRows(file, rows) ==
    /\ Len(file) = 1 + Len(rows)
    /\ file[1] = HeaderLine(Columns(rows))
    /\ \A i \in DOMAIN rows : file[i + 1] = RecordLine(Columns(rows), rows[i])

\* C23: every file a writer reports as created starts with exactly one
\* header row followed by the data rows, also when create_fromjson_tofs is
\* given an empty row list.
C23_HeaderRow ==
    \A r \in Req :
        Serialized(req[r]) => HeaderThenRows(ReadLines(fs[req[r].stream.path]), StreamRows(req[r]))

\* The same for the requests that were given at least one row
C23_HeaderRowNonEmpty ==
    \A r \in Req :
        (Serialized(req[r]) /\ StreamRows(req[r]) # <<>>) =>
            HeaderThenRows(ReadLines(fs[req[r].stream.path]), StreamRows(req[r]))

-----------------------------------------------------------------------------
(* The PostgreSQL singleton.                                               *)

\* Queries that write no file, on the two servers with a pool
InstanceCalls ==
    {[op |-> o, args |-> NoArgs] : o \in {"ping", "postgres_ping"}}
      \cup {[op |-> "postgres_run_query", args |-> QueryArgs(t, v)] :
              t \in CallerQueries, v \in ValueLists}

\* Any number of calls, one after another and at once, each going through
\* PostgreSQL.getInstance() of its server
NextInstances ==
    \E r \in Clients :
        \/ CallQuery(r, InstanceCalls)
        \/ StoreReplyRows(r, PoolRows)
        \/ StoreReplyError(r)
        \/ NextCall(r)

SpecInstances == Init /\ [][NextInstances]_vars

\* The requests whose query the store is executing for server s
Executing(s) == {r \in Clients : req[r].pc = "executing" /\ Server(r) = s}

\* The requests of server s for which pool.query was called
Queried(s) == {r \in Clients : req[r].queries > 0 /\ Server(r) = s}

\* C24: a server's process has one PostgreSQL instance, its pool is
\* constructed at most once (exactly once as soon as a request has called
\* getInstance) and holds one client, so at most one query of the server's
\* requests is executing at any time and it is the one holding the client.
C24_Singleton ==
    \A s \in Servers :
        /\ poolCount[s] <= 1
        /\ instance[s] <=> poolCount[s] = 1
        /\ Queried(s) # {} => instance[s]
        /\ Cardinality(Executing(s)) <= 1
        /\ \A r \in Executing(s) : poolClient[s] = r

C24_Witness ==
    \E s \in Servers :
        /\ poolCount[s] = 1
        /\ Cardinality(Queried(s)) = MaxClients
        /\ Cardinality(Executing(s)) = 1
        /\ \E r \in Clients : req[r].pc = "waiting"
        /\ \E r \in Clients : req[r].pc = "done"

====
